---- MODULE Spec2Model ----
(***************************************************************************)
(* rust_backtester/src/main.rs: a CSV transformer.  One run of `main` is   *)
(* modelled as a sequential state machine whose program counter `pc`       *)
(* follows the statements of main.  The environment (file system, the      *)
(* contents of the input file, I/O faults) is nondeterministic.            *)
(*                                                                         *)
(* Texts (CSV fields) are sequences of one-character strings, so that      *)
(* parsing a field as f64 and formatting an f64 are computed, not assumed. *)
(* Numeric values are held in tenths (15 stands for 1.5); every numeric    *)
(* text of the model is a multiple of 0.5, which f64 represents and adds   *)
(* exactly.                                                                *)
(***************************************************************************)
EXTENDS Integers, Sequences, FiniteSets, TLC

VARIABLES
    pc,            \* position in main
    args,          \* std::env::args() (args[0] of the code is args[1] here)
    outFile,       \* the file at the output path: [exists, data]
    created,       \* File::create succeeded in this run
    inputOpened,   \* File::open succeeded in this run
    header,        \* first record of the input file
    nrows,         \* number of data records of the input file
    input,         \* data records the reader has yielded so far, in order
    mode,          \* branch taken at line 52: "none", "replay" or "score"
    wbuf,          \* records held by the writer, not yet in the file
    emitted,       \* records the writer has accepted, in order
    err,           \* kind of the error that ended the run, or "none"
    exitCode,      \* process exit status, -1 while running
    usagePrinted   \* the usage message was printed to stderr

vars == <<pc, args, outFile, created, inputOpened, header, nrows, input, mode,
          wbuf, emitted, err, exitCode, usagePrinted>>

\* ------------------------------------------------------------------ bounds
MaxRows == 2        \* data records in the input file
MaxArgTail == 5     \* command-line arguments after the program name
WriterCap == 2      \* records the writer buffers before it writes to the file

\* ------------------------------------------------------------------- texts
Digits == <<"0", "1", "2", "3", "4", "5", "6", "7", "8", "9">>

DigitChars == {"0", "1", "2", "3", "4", "5", "6", "7", "8", "9"}

IsDigit(c) == c \in DigitChars

DigitVal(c) ==
    CASE c = "0" -> 0 [] c = "1" -> 1 [] c = "2" -> 2 [] c = "3" -> 3
      [] c = "4" -> 4 [] c = "5" -> 5 [] c = "6" -> 6 [] c = "7" -> 7
      [] c = "8" -> 8 [] c = "9" -> 9

PNL == <<"p", "n", "l">>

OLD == <<"o", "l", "d">>

\* Field texts found in data records: 1.5, -.5 and a non-numeric one.
FieldTexts == { <<"1", ".", "5">>, <<"-", ".", "5">>, <<"x">> }

ColumnNames == {"portfolio", "mom_score", "rev_score", "price"}

RECURSIVE DigitsVal(_)
\* Value of a sequence of digits read as a decimal natural number.
DigitsVal(t) ==
    IF t = <<>> THEN 0
    ELSE 10 * DigitsVal(SubSeq(t, 1, Len(t) - 1)) + DigitVal(t[Len(t)])

AllDigits(t) == \A i \in 1..Len(t) : IsDigit(t[i])

DotAt(t) == IF \E i \in 1..Len(t) : t[i] = "."
            THEN CHOOSE i \in 1..Len(t) :
                     t[i] = "." /\ \A j \in 1..(i - 1) : t[j] # "."
            ELSE 0

NotNumeric == [ok |-> FALSE, val |-> 0]

\* str::parse::<f64> on an unsigned decimal text with at most one fractional
\* digit: digits, optionally a point, optionally one more digit, and at
\* least one digit in all.  The value is returned in tenths.
ParseUnsigned(t) ==
    LET d == DotAt(t)
        ip == IF d = 0 THEN t ELSE SubSeq(t, 1, d - 1)
        fp == IF d = 0 THEN <<>> ELSE SubSeq(t, d + 1, Len(t))
    IN  IF /\ AllDigits(ip) /\ AllDigits(fp)
           /\ Len(ip) + Len(fp) > 0
           /\ Len(fp) <= 1
        THEN [ok |-> TRUE, val |-> 10 * DigitsVal(ip) + DigitsVal(fp)]
        ELSE NotNumeric

\* str::parse::<f64>, as csv's deserialize_f64 applies it to a field.
ParseF64(t) ==
    IF t # <<>> /\ t[1] = "-"
    THEN LET p == ParseUnsigned(Tail(t))
         IN  IF p.ok THEN [ok |-> TRUE, val |-> 0 - p.val] ELSE NotNumeric
    ELSE ParseUnsigned(t)

RECURSIVE NatDigits(_)
NatDigits(n) ==
    IF n < 10 THEN <<Digits[n + 1]>>
    ELSE Append(NatDigits(n \div 10), Digits[(n % 10) + 1])

Abs(v) == IF v < 0 THEN 0 - v ELSE v

\* csv's serialize_f64: the shortest decimal text that reads back as the
\* same f64, always with a fractional part (3.0 is written "3.0").
FormatF64(v) ==
    (IF v < 0 THEN <<"-">> ELSE <<>>)
        \o NatDigits(Abs(v) \div 10) \o <<".">> \o <<Digits[(Abs(v) % 10) + 1]>>

\* ------------------------------------------------------------- the records
\* Rows the reader can meet under a header of n columns: as many fields as
\* the header, one fewer, or one more.
RowsOfLen(n) == IF n < 1 THEN {} ELSE [1..n -> FieldTexts]

Rows(h) == RowsOfLen(Len(h) - 1) \cup RowsOfLen(Len(h)) \cup RowsOfLen(Len(h) + 1)

\* Header records of the input files: every header of at most two columns
\* over the column names (the empty one is an empty file), and some of three.
Headers ==
    {<<>>} \cup [1..1 -> ColumnNames] \cup [1..2 -> ColumnNames]
      \cup { <<"portfolio", "mom_score", "rev_score">>,
             <<"mom_score", "rev_score", "price">>,
             <<"price", "rev_score", "mom_score">>,
             <<"mom_score", "rev_score", "mom_score">>,
             <<"portfolio", "price", "portfolio">> }

\* Fields of struct ReplayRow and of struct RustRow.
ReplayRow == {"portfolio"}

RustRow == {"mom_score", "rev_score"}

DeError == [ok |-> FALSE, row |-> [n \in {} |-> 0]]

RECURSIVE DeserializeFrom(_, _, _, _, _)
\* The visit_map serde derives for a struct of f64 fields, fed by csv with
\* one (header, field) pair per column, left to right: a column named after
\* a field is parsed as f64 (a second such column is "duplicate field"),
\* any other column is read and dropped; a field never met is
\* "missing field".
DeserializeFrom(fields, h, rec, i, acc) ==
    IF i > Len(h)
    THEN IF DOMAIN acc = fields THEN [ok |-> TRUE, row |-> acc] ELSE DeError
    ELSE IF h[i] \in fields
         THEN IF h[i] \in DOMAIN acc
              THEN DeError
              ELSE LET p == ParseF64(rec[i])
                   IN  IF p.ok
                       THEN DeserializeFrom(fields, h, rec, i + 1,
                                [n \in (DOMAIN acc) \cup {h[i]} |->
                                    IF n = h[i] THEN p.val ELSE acc[n]])
                       ELSE DeError
         ELSE DeserializeFrom(fields, h, rec, i + 1, acc)

\* Mutant of Deserialize: every column must hold a number.
DeserializeAllColumns(fields, h, rec) ==
    IF \E i \in 1..Len(rec) : ~ParseF64(rec[i]).ok
    THEN DeError
    ELSE DeserializeFrom(fields, h, rec, 1, [n \in {} |-> 0])

Deserialize(fields, h, rec) ==
    DeserializeFrom(fields, h, rec, 1, [n \in {} |-> 0])

\* Mutant of HasPortfolio: only the first header is compared.
HasPortfolioFirstOnly(h) == Len(h) > 0 /\ h[1] = "portfolio"

\* Line 52: headers.iter().any(|h| h == "portfolio").
HasPortfolio(h) == \E i \in 1..Len(h) : h[i] = "portfolio"

\* Mutant of ReplayPnl: the value is truncated to a whole number.
ReplayPnlTruncated(row) == (row["portfolio"] \div 10) * 10

\* Line 56: the value serialized in replay mode.
ReplayPnl(row) == row["portfolio"]

\* Mutant of ScorePnl: the scores are subtracted.
ScorePnlDifference(row) == row["mom_score"] - row["rev_score"]

\* Line 63: the value serialized in score mode.
ScorePnl(row) == row["mom_score"] + row["rev_score"]

Pnl(m, row) == IF m = "replay" THEN ReplayPnl(row) ELSE ScorePnl(row)

RowType(m) == IF m = "replay" THEN ReplayRow ELSE RustRow

\* ------------------------------------------------------------ command line
ProgName == "rust_backtester"

ArgWords == {"--input", "--output", "in.csv"}

\* The path found at an even place of the command line; the input and the
\* output are different files.
PathAt(i) == IF i = 2 THEN "in.csv" ELSE "out.csv"

\* Command lines: the program name, then up to MaxArgTail arguments; the
\* odd places hold any word, the even places a path.
ArgTails ==
    UNION { { t \in [1..n -> ArgWords \cup {"out.csv"}] :
                \A i \in 1..n : IF i % 2 = 0 THEN t[i] = PathAt(i)
                                 ELSE t[i] \in ArgWords } : n \in 0..MaxArgTail }

ArgLists == { <<ProgName>> \o t : t \in ArgTails }

\* Mutant of ArgsOk: the third argument is not compared.
ArgsOkIgnoringOutputFlag(a) == Len(a) = 5 /\ a[2] = "--input"

\* Line 32, negated: args.len() == 5 && args[1] == "--input" && args[3] == "--output".
ArgsOk(a) == Len(a) = 5 /\ a[2] = "--input" /\ a[4] = "--output"

\* ------------------------------------------------------------------- state
Absent == [exists |-> FALSE, data |-> <<>>]

OldFile == [exists |-> TRUE, data |-> <<OLD>>]

Init ==
    /\ pc = "check_args"
    /\ args \in ArgLists
    /\ outFile \in {Absent, OldFile}
    /\ created = FALSE
    /\ inputOpened = FALSE
    /\ header = <<>>
    /\ nrows = 0
    /\ input = <<>>
    /\ mode = "none"
    /\ wbuf = <<>>
    /\ emitted = <<>>
    /\ err = "none"
    /\ exitCode = -1
    /\ usagePrinted = FALSE

\* An error returned by main before the writer exists (lines 40, 44): the
\* runtime reports it and the process exits with status 1.
FailEarly(kind) ==
    /\ pc' = "failed"
    /\ err' = kind
    /\ exitCode' = 1

\* An error returned by main once the writer exists (lines 48 to 69): the
\* writer is dropped, and its drop flushes what it holds and ignores the
\* result; records that could not be written stay in wbuf, lost.
Fail(kind) ==
    /\ pc' = "failed"
    /\ err' = kind
    /\ exitCode' = 1
    /\ \/ /\ outFile' = [outFile EXCEPT !.data = outFile.data \o wbuf]
          /\ wbuf' = <<>>
       \/ /\ wbuf # <<>>
          /\ UNCHANGED <<outFile, wbuf>>
    /\ UNCHANGED emitted

\* Writer::write_record / Writer::serialize of one record: the record goes
\* to the writer's buffer; a full buffer is written to the file first, and
\* a failure of that write is the error of the call.
Serialize(rec, next) ==
    IF Len(wbuf) < WriterCap
    THEN /\ wbuf' = Append(wbuf, rec)
         /\ emitted' = Append(emitted, rec)
         /\ pc' = next
         /\ UNCHANGED <<outFile, err, exitCode>>
    ELSE \/ /\ outFile' = [outFile EXCEPT !.data = outFile.data \o wbuf]
            /\ wbuf' = <<rec>>
            /\ emitted' = Append(emitted, rec)
            /\ pc' = next
            /\ UNCHANGED <<err, exitCode>>
         \/ Fail("write")

\* Lines 31 to 37.
CheckArgs ==
    /\ pc = "check_args"
    /\ IF ArgsOk(args)
       THEN /\ pc' = "open_input"
            /\ UNCHANGED <<err, exitCode, usagePrinted>>
       ELSE /\ pc' = "usage_exit"
            /\ usagePrinted' = TRUE
            /\ err' = "usage"
            /\ exitCode' = 1
    /\ UNCHANGED <<args, outFile, created, inputOpened, header, nrows, input,
                   mode, wbuf, emitted>>

\* Mutant of OpenInput: the output file is created before the input is opened.
OpenInputAfterCreate ==
    /\ pc = "open_input"
    /\ outFile' = [exists |-> TRUE, data |-> <<>>]
    /\ created' = TRUE
    /\ \/ /\ FailEarly("open")
          /\ UNCHANGED <<inputOpened, header, nrows>>
       \/ /\ inputOpened' = TRUE
          /\ header' \in Headers
          /\ nrows' \in 0..MaxRows
          /\ (header' = <<>>) => (nrows' = 0)
          /\ pc' = "write_header"
          /\ UNCHANGED <<err, exitCode>>
    /\ UNCHANGED <<args, input, mode, wbuf, emitted, usagePrinted>>

\* Lines 40 and 41: File::open fails, or yields the file found at the path:
\* a header record and some data records (an empty file has neither).
OpenInput ==
    /\ pc = "open_input"
    /\ \/ /\ FailEarly("open")
          /\ UNCHANGED <<inputOpened, header, nrows>>
       \/ /\ inputOpened' = TRUE
          /\ header' \in Headers
          /\ nrows' \in 0..MaxRows
          /\ (header' = <<>>) => (nrows' = 0)
          /\ pc' = "create_output"
          /\ UNCHANGED <<err, exitCode>>
    /\ UNCHANGED <<args, outFile, created, input, mode, wbuf, emitted,
                   usagePrinted>>

\* Lines 44 and 45: File::create fails, or creates the file empty or
\* truncates the one that is there.
CreateOutput ==
    /\ pc = "create_output"
    /\ \/ /\ FailEarly("create")
          /\ UNCHANGED <<outFile, created>>
       \/ /\ outFile' = [exists |-> TRUE, data |-> <<>>]
          /\ created' = TRUE
          /\ pc' = "write_header"
          /\ UNCHANGED <<err, exitCode>>
    /\ UNCHANGED <<args, inputOpened, header, nrows, input, mode, wbuf,
                   emitted, usagePrinted>>

\* Mutant of WriteHeader: no header record is written.
WriteHeaderSkipped ==
    /\ pc = "write_header"
    /\ pc' = "read_headers"
    /\ UNCHANGED <<outFile, wbuf, emitted, err, exitCode>>
    /\ UNCHANGED <<args, created, inputOpened, header, nrows, input, mode,
                   usagePrinted>>

\* Line 48.
WriteHeader ==
    /\ pc = "write_header"
    /\ Serialize(PNL, "read_headers")
    /\ UNCHANGED <<args, created, inputOpened, header, nrows, input, mode,
                   usagePrinted>>

\* Mutant of ReadHeaders: a header lacking the columns of its mode is refused.
ReadHeadersStrict ==
    /\ pc = "read_headers"
    /\ \/ /\ Fail("read")
          /\ UNCHANGED mode
       \/ /\ ~HasPortfolio(header)
          /\ ~(RustRow \subseteq {header[i] : i \in 1..Len(header)})
          /\ Fail("deserialize")
          /\ UNCHANGED mode
       \/ /\ HasPortfolio(header) \/ RustRow \subseteq {header[i] : i \in 1..Len(header)}
          /\ mode' = IF HasPortfolio(header) THEN "replay" ELSE "score"
          /\ pc' = "loop"
          /\ UNCHANGED <<outFile, wbuf, emitted, err, exitCode>>
    /\ UNCHANGED <<args, created, inputOpened, header, nrows, input,
                   usagePrinted>>

\* Lines 51 and 52: reading the header record fails, or the branch is
\* chosen from it.
ReadHeaders ==
    /\ pc = "read_headers"
    /\ \/ /\ Fail("read")
          /\ UNCHANGED mode
       \/ /\ mode' = IF HasPortfolio(header) THEN "replay" ELSE "score"
          /\ pc' = "loop"
          /\ UNCHANGED <<outFile, wbuf, emitted, err, exitCode>>
    /\ UNCHANGED <<args, created, inputOpened, header, nrows, input,
                   usagePrinted>>

\* Lines 54 and 60: rdr.deserialize() has no record left.
EndOfInput ==
    /\ pc = "loop"
    /\ Len(input) = nrows
    /\ pc' = "flush"
    /\ UNCHANGED <<args, outFile, created, inputOpened, header, nrows, input,
                   mode, wbuf, emitted, err, exitCode, usagePrinted>>

\* Lines 54 and 60: reading the next record fails with an I/O error.
ReadFails ==
    /\ pc = "loop"
    /\ Len(input) < nrows
    /\ Fail("read")
    /\ UNCHANGED <<args, created, inputOpened, header, nrows, input, mode,
                   usagePrinted>>

\* Mutant of ProcessRow: a record that cannot be deserialized is skipped.
ProcessRowSkipping ==
    /\ pc = "loop"
    /\ Len(input) < nrows
    /\ \E rec \in Rows(header) :
          /\ input' = Append(input, rec)
          /\ IF Len(rec) # Len(header)
             THEN Fail("unequal_lengths")
             ELSE LET d == Deserialize(RowType(mode), header, rec)
                  IN  IF d.ok
                      THEN Serialize(FormatF64(Pnl(mode, d.row)), "loop")
                      ELSE UNCHANGED <<pc, outFile, wbuf, emitted, err, exitCode>>
    /\ UNCHANGED <<args, created, inputOpened, header, nrows, mode,
                   usagePrinted>>

\* Lines 54 to 57 and 60 to 65, one iteration: the reader yields the next
\* record, refusing one whose field count differs from the header's
\* (the reader is not flexible); the record is deserialized as the row
\* type of the branch; the pnl is serialized.
ProcessRow ==
    /\ pc = "loop"
    /\ Len(input) < nrows
    /\ \E rec \in Rows(header) :
          /\ input' = Append(input, rec)
          /\ IF Len(rec) # Len(header)
             THEN Fail("unequal_lengths")
             ELSE LET d == Deserialize(RowType(mode), header, rec)
                  IN  IF d.ok
                      THEN Serialize(FormatF64(Pnl(mode, d.row)), "loop")
                      ELSE Fail("deserialize")
    /\ UNCHANGED <<args, created, inputOpened, header, nrows, mode,
                   usagePrinted>>

\* Mutant of Flush: the result of the flush is dropped.
FlushUnchecked ==
    /\ pc = "flush"
    /\ \/ /\ outFile' = [outFile EXCEPT !.data = outFile.data \o wbuf]
          /\ wbuf' = <<>>
       \/ /\ wbuf # <<>>
          /\ UNCHANGED <<outFile, wbuf>>
    /\ pc' = "done"
    /\ exitCode' = 0
    /\ UNCHANGED <<emitted, err>>
    /\ UNCHANGED <<args, created, inputOpened, header, nrows, input, mode,
                   usagePrinted>>

\* Lines 69 and 70.
Flush ==
    /\ pc = "flush"
    /\ \/ /\ outFile' = [outFile EXCEPT !.data = outFile.data \o wbuf]
          /\ wbuf' = <<>>
          /\ pc' = "done"
          /\ exitCode' = 0
          /\ UNCHANGED <<emitted, err>>
       \/ Fail("flush")
    /\ UNCHANGED <<args, created, inputOpened, header, nrows, input, mode,
                   usagePrinted>>

Next ==
    \/ CheckArgs
    \/ OpenInput
    \/ CreateOutput
    \/ WriteHeader
    \/ ReadHeaders
    \/ EndOfInput
    \/ ReadFails
    \/ ProcessRow
    \/ Flush

Spec == Init /\ [][Next]_vars

\* ----------------------------------------------- vocabulary of the claims
Terminated == pc \in {"done", "failed", "usage_exit"}

IoErrors == {"open", "create", "read", "write", "flush"}

RecordErrors == {"unequal_lengths", "deserialize"}

IsPrefix(s, t) == Len(s) <= Len(t) /\ s = SubSeq(t, 1, Len(s))

Front(s) == SubSeq(s, 1, Len(s) - 1)

\* Columns of header h named n.
ColsNamed(h, n) == { i \in 1..Len(h) : h[i] = n }

\* Record rec has a numeric field under a column named n.
HasNumeric(h, rec, n) ==
    \E i \in ColsNamed(h, n) : i <= Len(rec) /\ ParseF64(rec[i]).ok

Required(m) ==
    IF m = "replay" THEN {"portfolio"}
    ELSE IF m = "score" THEN {"mom_score", "rev_score"} ELSE {}

\* Record rec has as many fields as the header, and every field mode m
\* requires is named by exactly one column and numeric there.
WellFormed(h, rec, m) ==
    /\ Len(rec) = Len(h)
    /\ \A n \in Required(m) :
          /\ Cardinality(ColsNamed(h, n)) = 1
          /\ HasNumeric(h, rec, n)

FieldVal(h, rec, n) == ParseF64(rec[CHOOSE i \in ColsNamed(h, n) : TRUE]).val

ExpectedPnl(h, rec, m) ==
    IF m = "replay" THEN FieldVal(h, rec, "portfolio")
    ELSE FieldVal(h, rec, "mom_score") + FieldVal(h, rec, "rev_score")

\* out is the pnl header followed by one record per row of rows, in order,
\* each reading back as the pnl of its row.
OutputMatches(out, h, rows, m) ==
    /\ Len(out) = Len(rows) + 1
    /\ out[1] = PNL
    /\ \A i \in 1..Len(rows) :
          ParseF64(out[i + 1]) = [ok |-> TRUE, val |-> ExpectedPnl(h, rows[i], m)]

AllWellFormed(rows) == \A i \in 1..Len(rows) : WellFormed(header, rows[i], mode)

\* -------------------------------------------------------------------- C1
\* C1, as stated: in replay mode, whenever every data record has a numeric
\* field under a portfolio column (I/O faults aside), the run succeeds and the
\* output is the pnl header and one record per data record, in order, each
\* equal in value to the record's portfolio.  Refuted by a record whose field
\* count differs from the header's and by a header naming portfolio twice.
C1_AsStated ==
    ( /\ Terminated
      /\ mode = "replay"
      /\ err \notin IoErrors
      /\ \A i \in 1..Len(input) : HasNumeric(header, input[i], "portfolio") )
    => ( /\ pc = "done"
         /\ OutputMatches(outFile.data, header, input, "replay") )

\* C1, amended: in replay mode, when the header names portfolio exactly once and
\* every data record has as many fields as the header and a numeric portfolio
\* field (I/O faults aside), the run succeeds, every data record was read, and
\* the output is the pnl header and one record per data record, in order, each
\* equal in value to the record's portfolio.
C1_ReplayOutput ==
    ( /\ Terminated
      /\ mode = "replay"
      /\ err \notin IoErrors
      /\ Cardinality(ColsNamed(header, "portfolio")) = 1
      /\ \A i \in 1..Len(input) :
            /\ Len(input[i]) = Len(header)
            /\ HasNumeric(header, input[i], "portfolio") )
    => ( /\ pc = "done"
         /\ exitCode = 0
         /\ Len(input) = nrows
         /\ OutputMatches(outFile.data, header, input, "replay") )

\* A successful replay run over two records with different portfolio values,
\* under a header with another column.
C1_Witness ==
    /\ pc = "done"
    /\ mode = "replay"
    /\ Len(header) >= 2
    /\ Len(input) = 2
    /\ FieldVal(header, input[1], "portfolio") # FieldVal(header, input[2], "portfolio")
    /\ Len(outFile.data) = 3

\* -------------------------------------------------------------------- C2
\* C2, as stated: in score mode, whenever every data record has numeric fields
\* under a mom_score and a rev_score column (I/O faults aside), the run succeeds
\* and each output record equals mom_score + rev_score of its data record.
\* Refuted by a record whose field count differs from the header's and by a
\* header naming a score twice.
C2_AsStated ==
    ( /\ Terminated
      /\ mode = "score"
      /\ err \notin IoErrors
      /\ \A i \in 1..Len(input) :
            /\ HasNumeric(header, input[i], "mom_score")
            /\ HasNumeric(header, input[i], "rev_score") )
    => ( /\ pc = "done"
         /\ OutputMatches(outFile.data, header, input, "score") )

\* C2, amended: in score mode, when the header names mom_score and rev_score
\* exactly once each and every data record has as many fields as the header and
\* numeric mom_score and rev_score fields (I/O faults aside), the run succeeds,
\* every data record was read, and the output is the pnl header and one record
\* per data record, in order, each equal in value to mom_score + rev_score.
C2_ScoreOutput ==
    ( /\ Terminated
      /\ mode = "score"
      /\ err \notin IoErrors
      /\ Cardinality(ColsNamed(header, "mom_score")) = 1
      /\ Cardinality(ColsNamed(header, "rev_score")) = 1
      /\ \A i \in 1..Len(input) :
            /\ Len(input[i]) = Len(header)
            /\ HasNumeric(header, input[i], "mom_score")
            /\ HasNumeric(header, input[i], "rev_score") )
    => ( /\ pc = "done"
         /\ exitCode = 0
         /\ Len(input) = nrows
         /\ OutputMatches(outFile.data, header, input, "score") )

\* A successful score run over two records whose scores differ within a
\* record: 1.5 + -.5 is written 1.0.
C2_Witness ==
    /\ pc = "done"
    /\ mode = "score"
    /\ Len(input) = 2
    /\ FieldVal(header, input[1], "mom_score") = 15
    /\ FieldVal(header, input[1], "rev_score") = -5
    /\ outFile.data[2] = <<"1", ".", "0">>
    /\ outFile.data[3] = <<"-", "1", ".", "0">>

\* -------------------------------------------------------------------- C3
\* C3: once chosen, the mode is replay exactly when some column of the header
\* is named portfolio, whatever the records read; it is chosen only at line 52
\* and never changes afterwards.
C3_ModeFromHeader ==
    /\ [](mode # "none" =>
            (mode = "replay" <=> Cardinality(ColsNamed(header, "portfolio")) >= 1))
    /\ [](mode # "none" => (mode = "score" <=> ColsNamed(header, "portfolio") = {}))
    /\ [][mode # "none" => mode' = mode]_vars
    /\ [][mode' # mode => pc = "read_headers"]_vars

\* Replay mode under a header that also names both scores, chosen before any
\* record and kept to the end of a run that read records.
C3_Witness ==
    /\ mode = "replay"
    /\ ColsNamed(header, "mom_score") # {}
    /\ ColsNamed(header, "rev_score") # {}
    /\ pc = "done"
    /\ Len(input) = 2

\* -------------------------------------------------------------------- C4
\* The command line is exactly: program, --input, a path, --output, a path.
ExactCommandLine(a) ==
    /\ Len(a) = 5
    /\ a = <<a[1], "--input", a[3], "--output", a[5]>>

\* C4: once the arguments have been checked, a command line that is not
\* exactly `--input <path> --output <path>` has printed the usage message and
\* exited with status 1, the input was never opened and the output file was
\* neither created nor truncated; a command line that is exactly that never
\* prints the usage message.
C4_UsageExit ==
    /\ (pc # "check_args" /\ ~ExactCommandLine(args))
          => ( /\ pc = "usage_exit"
               /\ usagePrinted
               /\ exitCode = 1
               /\ ~inputOpened
               /\ ~created
               /\ outFile \in {Absent, OldFile}
               /\ emitted = <<>> )
    /\ ExactCommandLine(args) => (~usagePrinted /\ pc # "usage_exit")

\* A usage exit on a command line of the right length whose third argument is
\* not --output, the output file that was there left as it was.
C4_Witness ==
    /\ pc = "usage_exit"
    /\ Len(args) = 5
    /\ args[2] = "--input"
    /\ args[4] # "--output"
    /\ outFile = OldFile

\* -------------------------------------------------------------------- C5
\* The records read before the one the run failed on: all of them when the run
\* failed reading, the ones before the last when it failed on a record.
Preceding ==
    IF err \in RecordErrors \cup {"write"} THEN Front(input) ELSE input

\* C5, as stated: the output file of a run that failed after creating it is
\* the pnl header followed by the pnl of exactly the records that precede the
\* failing one.  Refuted when the records held by the writer cannot be
\* written as the writer is dropped.
C5_AsStated ==
    (pc = "failed" /\ created)
        => OutputMatches(outFile.data, header, Preceding, mode)

\* C5, amended: in a run that failed after creating the output, the records
\* read before the failing one were all well formed and the failing one was
\* not (when the error is the record's); the writer accepted the pnl header
\* and the pnl of exactly the records before the failing one, in order, and
\* nothing for the failing one; no record after it was read; the output file
\* holds a prefix of what the writer accepted, and all of it when the flush
\* done as the writer is dropped succeeds.
C5_FailFast ==
    (pc = "failed" /\ created)
        => ( /\ exitCode = 1
             /\ Len(input) <= nrows
             /\ AllWellFormed(Preceding)
             /\ (err \in RecordErrors => ~WellFormed(header, input[Len(input)], mode))
             /\ OutputMatches(emitted, header, Preceding, mode)
             /\ IsPrefix(outFile.data, emitted)
             /\ emitted = outFile.data \o wbuf
             /\ (wbuf = <<>> =>
                    OutputMatches(outFile.data, header, Preceding, mode)) )

\* A run that failed deserializing its second record: the first record's pnl
\* is in the output file.
C5_Witness ==
    /\ pc = "failed"
    /\ err = "deserialize"
    /\ Len(input) = 2
    /\ outFile.data = <<PNL, <<"1", ".", "5">>>>

\* -------------------------------------------------------------------- C6
\* Record rec lacks a numeric value for a field that mode m requires.
LacksRequired(h, rec, m) == \E n \in Required(m) : ~HasNumeric(h, rec, n)

\* C6, as stated: a run that opened both files fails with a record error
\* exactly when some record read lacks a numeric value for a required field.
\* Refuted by a record whose field count differs from the header's and by a
\* header naming a required field twice.
C6_AsStated ==
    created =>
        ( (err \in RecordErrors)
            <=> (\E i \in 1..Len(input) : LacksRequired(header, input[i], mode)) )

\* C6, amended: a run that opened both files fails with a record error exactly
\* when some record read has a field count other than the header's, or lacks a
\* numeric value for a required field, or has a required field named by more
\* than one column; only the last record read can be such a record; the values
\* of the other columns never cause a failure, and the output of a successful
\* run is computed from the required fields alone.
C6_RecordErrorIff ==
    created =>
        ( /\ (err \in RecordErrors)
                <=> (\E i \in 1..Len(input) : ~WellFormed(header, input[i], mode))
          /\ \A i \in 1..(Len(input) - 1) : WellFormed(header, input[i], mode)
          /\ (pc = "done" => OutputMatches(outFile.data, header, input, mode)) )

\* A successful replay run that read a record whose mom_score is not numeric.
C6_Witness ==
    /\ pc = "done"
    /\ mode = "replay"
    /\ \E i \in 1..Len(input) : \E c \in ColsNamed(header, "mom_score") :
           ~ParseF64(input[i][c]).ok

\* -------------------------------------------------------------------- C7
\* C7, as stated: the output file of every terminated run that created it
\* begins with the pnl header.  Refuted when the records held by the writer
\* cannot be written to the file.
C7_AsStated ==
    (created /\ Terminated)
        => (outFile.data # <<>> /\ outFile.data[1] = PNL)

\* C7, amended: in every run that creates the output file, the pnl header is
\* the first record the writer accepts, before the input headers are read, and
\* no later record is the header; the file holds a prefix of the records the
\* writer accepted, so it is empty or begins with pnl; and it begins with pnl
\* at the end of every run, successful or failed, in which the writer's
\* records could be written.
C7_HeaderFirst ==
    created =>
        ( /\ (pc # "write_header" => (emitted # <<>> /\ emitted[1] = PNL))
          /\ \A i \in 2..Len(emitted) : emitted[i] # PNL
          /\ IsPrefix(outFile.data, emitted)
          /\ (outFile.data # <<>> => outFile.data[1] = PNL)
          /\ ((Terminated /\ wbuf = <<>>) => (outFile.data # <<>> /\ outFile.data[1] = PNL)) )

\* A run that failed on its first data record and left the header in the file.
C7_Witness ==
    /\ pc = "failed"
    /\ err = "deserialize"
    /\ Len(input) = 1
    /\ outFile.data = <<PNL>>

\* -------------------------------------------------------------------- C8
\* C8: a run over an input with a header and no data record that meets no I/O
\* fault succeeds, and its output is the pnl header alone, whatever the
\* header names.
C8_HeaderOnly ==
    (Terminated /\ inputOpened /\ nrows = 0 /\ err \notin IoErrors)
        => ( /\ pc = "done"
             /\ exitCode = 0
             /\ err = "none"
             /\ outFile = [exists |-> TRUE, data |-> <<PNL>>] )

\* A successful run over a header that names none of portfolio, mom_score and
\* rev_score, and no data record.
C8_Witness ==
    /\ pc = "done"
    /\ nrows = 0
    /\ header = <<"price", "price">>
    /\ mode = "score"
    /\ outFile.data = <<PNL>>

\* -------------------------------------------------------------------- C9
\* C9: exit status 0 is reported only at the end of main, with no error, every
\* data record read, the pnl of every record accepted by the writer in order,
\* and everything the writer accepted flushed to the file; a run that met an
\* error exits with status 1.
C9_SuccessOnlyAfterFlush ==
    /\ exitCode = 0
          => ( /\ pc = "done"
               /\ err = "none"
               /\ inputOpened /\ created
               /\ Len(input) = nrows
               /\ OutputMatches(emitted, header, input, mode)
               /\ wbuf = <<>>
               /\ outFile.data = emitted )
    /\ err # "none" => (exitCode = 1 /\ pc \in {"failed", "usage_exit"})
    /\ pc = "done" => exitCode = 0

\* A successful run over two records, the writer's buffer having been written
\* to the file once before the final flush.
C9_Witness ==
    /\ exitCode = 0
    /\ Len(input) = 2
    /\ Len(outFile.data) = 3

\* ------------------------------------------------------------------- C10
\* C10: the output file is created or truncated only once the arguments have
\* passed the check and the input has been opened; until then, and in a run
\* whose input cannot be opened, the file at the output path is absent or
\* holds what it held.
C10_InputBeforeOutput ==
    /\ created => (inputOpened /\ ExactCommandLine(args))
    /\ ~created => outFile \in {Absent, OldFile}
    /\ err = "open" => (~created /\ ~inputOpened /\ pc = "failed" /\ exitCode = 1)

\* A run whose input could not be opened, the output file that was there left
\* with its contents.
C10_Witness ==
    /\ err = "open"
    /\ pc = "failed"
    /\ outFile = OldFile

====
